---------------------------- MODULE Spec2Model ----------------------------
(***************************************************************************)
(* A model of the LearningContentViewer of LearningPublicData.             *)
(*                                                                         *)
(* The repository holds two builds of the viewer:                          *)
(*   "script"   - src/script.js: a hard-coded candidate list, a timeout on *)
(*                every fetch, a status line, a loading indicator and a    *)
(*                fallback to the built-in SAMPLE_DATA;                    *)
(*   "manifest" - src/unnamed/part_000: the candidate list comes from      *)
(*                file_manifest.json, loadJsonFile never fails (it returns *)
(*                a one-entry error document instead).                     *)
(* The variable viewer says which build the page runs.                     *)
(*                                                                         *)
(* Strings that the code inspects (summaries, the content filter) are      *)
(* sequences of one-character strings; JSON values, DOM regions and        *)
(* pending promises are records.                                           *)
(***************************************************************************)
EXTENDS Integers, Sequences, FiniteSets, TLC

(***************************************************************************)
(* Bounds of the model.                                                    *)
(***************************************************************************)
\* number of candidate files (availableFiles / the manifest's entries)
MaxFiles == 2
\* number of loads started by user selections that may be in flight at once
MaxLoads == 1
\* longest Document (number of entries) drawn by the rendering specification
MaxEntries == 2
\* longest summary drawn by the rendering specification
MaxSummary == 3
\* longest Document (number of records) drawn by the buttons specification
MaxRecords == 3

(***************************************************************************)
(* Configuration: constructor arguments (script.js:2, part_000:2).         *)
(***************************************************************************)
\* The category names used by the model; typeFilter is the constructor's
\* default "tech_choices", the other two sort before and after it.
typeFilter == "tech_choices"

Types == {"architecture", "tech_choices", "usage"}

\* Array.prototype.sort() without a comparator orders strings by code unit;
\* TypeRank is that order on Types.
TypeRank(t) ==
    CASE t = "architecture" -> 1
      [] t = "tech_choices" -> 2
      [] t = "usage" -> 3
      [] OTHER -> 4

\* The characters of the modelled strings.  "(" is a character that is
\* special in a regular expression: a pattern holding an unclosed "(" does
\* not compile.
Chars == {"a", "b", "("}

\* The constructor's default contentFilter, "Testing Frameworks": a literal
\* text of several characters, none special in a regular expression, that
\* does not overlap itself.
DefaultFilter == <<"a", "b">>

\* Content filters a caller may pass to the constructor.
Filters == {DefaultFilter, <<"a", "(">>}

(***************************************************************************)
(* JSON values.                                                            *)
(*   An array element is [obj, type, sumKind, summary]:                    *)
(*     obj      - typeof item === 'object' and item is not null            *)
(*     type     - item.type, "" when absent (falsy either way)             *)
(*     sumKind  - "none" (absent), "string", or "number" (a truthy value   *)
(*                that is not a string)                                    *)
(*     summary  - the text when sumKind = "string", <<>> otherwise         *)
(*   A parsed body is [kind, items]: an "array" of elements, an "object"   *)
(*   (truthy, not an array, e.g. {}), or "null" (falsy).                   *)
(***************************************************************************)
Item(o, t, k, s) == [obj |-> o, type |-> t, sumKind |-> k, summary |-> s]

NullItem == Item(FALSE, "", "none", <<>>)

Entry(t, s) == Item(TRUE, t, "string", s)

Arr(items) == [kind |-> "array", items |-> items]

NullData == [kind |-> "null", items |-> <<>>]

ObjectData == [kind |-> "object", items |-> <<>>]

Truthy(data) == data.kind # "null"

\* item.summary is truthy
HasSummary(item) ==
    \/ item.sumKind = "number"
    \/ item.sumKind = "string" /\ item.summary # <<>>

(***************************************************************************)
(* String operations.                                                      *)
(***************************************************************************)
\* p occurs in s at position i
OccursAt(s, p, i) ==
    /\ i >= 1
    /\ i + Len(p) - 1 <= Len(s)
    /\ \A k \in 1..Len(p) : s[i + k - 1] = p[k]

\* String.prototype.includes
Includes(s, p) == \E i \in 1..(Len(s) + 1) : OccursAt(s, p, i)

\* new RegExp(pattern, 'g') throws a SyntaxError for a pattern that is not a
\* regular expression; over Chars that is a pattern with a "(".
RegExpCompiles(p) == \A k \in 1..Len(p) : p[k] # "("

\* A rendered character: hl says it stands inside <span class="highlight">.
Plain(c) == [ch |-> c, hl |-> FALSE]

Marked(c) == [ch |-> c, hl |-> TRUE]

PlainText(s) == [k \in 1..Len(s) |-> Plain(s[k])]

HighlightSpan(p) == [k \in 1..Len(p) |-> Marked(p[k])]

\* summary.replace(new RegExp(p, 'g'), `<span class="highlight">${p}</span>`)
\* for a pattern without special characters: the matches are the occurrences
\* of p found left to right, each search resuming after the previous match.
RECURSIVE ReplaceFrom(_, _, _)
ReplaceFrom(s, p, i) ==
    IF i > Len(s) THEN <<>>
    ELSE IF OccursAt(s, p, i)
         THEN HighlightSpan(p) \o ReplaceFrom(s, p, i + Len(p))
         ELSE <<Plain(s[i])>> \o ReplaceFrom(s, p, i + 1)

replace(s, p) == ReplaceFrom(s, p, 1)

(***************************************************************************)
(* File identifiers and the DOM regions.                                   *)
(*   A file name is [src, n, learnings]: the n-th remote candidate, or the *)
(*   n-th key of SAMPLE_DATA; learnings says the name ends with            *)
(*   '_learnings.json'.  NoFile is the value "" of an empty <select>.      *)
(*   The output region is [kind, repo, cat, note, items]: a message, or a  *)
(*   rendered category: the <h2> built from the selector's value (repo)    *)
(*   and the category (cat), the "This section contains" note, and one     *)
(*   <div> per summary.                                                    *)
(*   The category buttons are [msg, list]: msg is the paragraph "No        *)
(*   content types found", list the buttons with their active mark.        *)
(***************************************************************************)
NoFile == [src |-> "none", n |-> 0, learnings |-> FALSE]

RemoteFile(i) == [src |-> "remote", n |-> i, learnings |-> TRUE]

Out(kind, repo, cat, note, items) ==
    [kind |-> kind, repo |-> repo, cat |-> cat, note |-> note, items |-> items]

Message(kind) == Out(kind, NoFile, "", FALSE, <<>>)

\* the page before the script has written anything
InitialOut == Message("initial")

NoButtons == [msg |-> FALSE, list |-> <<>>]

Button(label) == [label |-> label, active |-> FALSE]

(***************************************************************************)
(* fileContainsFilteredContent: "threw" is a TypeError (data.some is not a *)
(* function), which only the manifest build can raise.                     *)
(***************************************************************************)
ItemMatchesFilter(item, filter) ==
    /\ item.obj
    /\ item.type = typeFilter
    /\ item.sumKind = "string"
    /\ item.summary # <<>>
    /\ Includes(item.summary, filter)

fileContainsFilteredContent(build, data, filter) ==
    IF build = "script" /\ data.kind # "array"
    THEN [threw |-> FALSE, result |-> FALSE]
    ELSE IF data.kind # "array"
    THEN [threw |-> TRUE, result |-> FALSE]
    ELSE [threw |-> FALSE,
          result |-> \E k \in 1..Len(data.items) :
                         ItemMatchesFilter(data.items[k], filter)]

(***************************************************************************)
(* updateTypeButtons                                                       *)
(***************************************************************************)
\* A variant that leaves out the test of item.type.
TypesOfEveryObject(data) ==
    {data.items[k].type : k \in {j \in 1..Len(data.items) : data.items[j].obj}}

TypesOf(data) ==
    {data.items[k].type : k \in {j \in 1..Len(data.items) :
                                   data.items[j].obj /\ data.items[j].type # ""}}

\* [...new Set(...)].sort(): the distinct types in ascending order
RECURSIVE Sorted(_)
Sorted(S) ==
    IF S = {} THEN <<>>
    ELSE LET least == CHOOSE t \in S : \A u \in S : TypeRank(t) <= TypeRank(u)
         IN  <<least>> \o Sorted(S \ {least})

updateTypeButtons(build, data, old) ==
    IF ~Truthy(data) THEN [threw |-> FALSE, buttons |-> old]
    ELSE IF data.kind # "array"
    THEN \* innerHTML = '' has run; .filter is not a function
         [threw |-> TRUE, buttons |-> NoButtons]
    ELSE LET types == Sorted(TypesOf(data))
         IN  IF types = <<>> /\ build = "script"
             THEN [threw |-> FALSE, buttons |-> [msg |-> TRUE, list |-> <<>>]]
             ELSE [threw |-> FALSE,
                   buttons |-> [msg |-> FALSE,
                                list |-> [k \in 1..Len(types) |-> Button(types[k])]]]

(***************************************************************************)
(* displayContentByType                                                    *)
(***************************************************************************)
ItemsOfType(data, typeName) ==
    SelectSeq(data.items, LAMBDA it : it.obj /\ it.type = typeName)

\* contentItems.some(item => item.summary && item.summary.includes(filter)):
\* "true", "false", or "throw" when it reaches a summary that is no string
\* (includes is not a function) before it finds a match.
RECURSIVE SomeIncludes(_, _, _)
SomeIncludes(items, filter, i) ==
    IF i > Len(items) THEN "false"
    ELSE IF ~HasSummary(items[i]) THEN SomeIncludes(items, filter, i + 1)
    ELSE IF items[i].sumKind = "number" THEN "throw"
    ELSE IF Includes(items[i].summary, filter) THEN "true"
    ELSE SomeIncludes(items, filter, i + 1)

\* Whether the highlight branch is taken for a summary (script.js:305).
HighlightApplies(typeName, summary, filter) ==
    filter # <<>> /\ typeName = typeFilter /\ Includes(summary, filter)

\* One pass of contentItems.forEach: the <div>s, or threw.  A summary that
\* is no string throws in summary.includes or, outside the target category,
\* in marked.parse, which rejects input that is not a string.
RECURSIVE RenderItems(_, _, _, _)
RenderItems(items, typeName, filter, i) ==
    IF i > Len(items) THEN [threw |-> FALSE, divs |-> <<>>]
    ELSE LET item == items[i]
             rest == RenderItems(items, typeName, filter, i + 1)
         IN  IF ~HasSummary(item) THEN rest
             ELSE IF item.sumKind = "number" THEN [threw |-> TRUE, divs |-> <<>>]
             ELSE IF HighlightApplies(typeName, item.summary, filter)
                       /\ ~RegExpCompiles(filter)
             THEN [threw |-> TRUE, divs |-> <<>>]
             ELSE IF rest.threw THEN rest
             ELSE [threw |-> FALSE,
                   divs |-> <<IF HighlightApplies(typeName, item.summary, filter)
                              THEN replace(item.summary, filter)
                              ELSE PlainText(item.summary)>> \o rest.divs]

displayContentByType(data, typeName, fileValue, filter, old) ==
    IF ~Truthy(data) THEN [threw |-> FALSE, out |-> Message("noDataLoaded")]
    ELSE IF data.kind # "array" THEN [threw |-> TRUE, out |-> old]
    ELSE LET contentItems == ItemsOfType(data, typeName)
             hasMatchingContent == SomeIncludes(contentItems, filter, 1)
             body == RenderItems(contentItems, typeName, filter, 1)
         IN  IF contentItems = <<>>
             THEN [threw |-> FALSE,
                   out |-> Out("noContentForType", NoFile, typeName, FALSE, <<>>)]
             ELSE IF hasMatchingContent = "throw" \/ body.threw
             THEN [threw |-> TRUE, out |-> old]
             ELSE [threw |-> FALSE,
                   out |-> Out("category", fileValue, typeName,
                               typeName = typeFilter /\ hasMatchingContent = "true",
                               body.divs)]

(***************************************************************************)
(* displaySelectedContent                                                  *)
(***************************************************************************)
\* The filter callback of script.js:326-332 throws on a target-category item
\* whose summary is truthy and no string.
MatchingThrows(data) ==
    \E k \in 1..Len(data.items) :
        /\ data.items[k].obj
        /\ data.items[k].type = typeFilter
        /\ data.items[k].sumKind = "number"

MatchingItems(data, filter) ==
    SelectSeq(data.items,
              LAMBDA it : /\ it.obj
                          /\ it.type = typeFilter
                          /\ it.sumKind = "string"
                          /\ it.summary # <<>>
                          /\ Includes(it.summary, filter))

\* btn.classList.add('active') on every button whose text is label
ActivateLabel(buttons, label) ==
    [buttons EXCEPT !.list =
        [k \in 1..Len(buttons.list) |->
            IF buttons.list[k].label = label
            THEN [buttons.list[k] EXCEPT !.active = TRUE]
            ELSE buttons.list[k]]]

\* document.querySelector('.type-button').classList.add('active')
ActivateFirst(buttons) ==
    IF buttons.list = <<>> THEN buttons
    ELSE [buttons EXCEPT !.list[1].active = TRUE]

displaySelectedContent(data, buttons, fileValue, filter, old) ==
    IF ~Truthy(data)
    THEN [threw |-> FALSE, buttons |-> buttons, out |-> Message("pleaseSelect")]
    ELSE IF data.kind # "array" \/ MatchingThrows(data)
    THEN [threw |-> TRUE, buttons |-> buttons, out |-> old]
    ELSE IF MatchingItems(data, filter) # <<>>
    THEN LET r == displayContentByType(data, typeFilter, fileValue, filter, old)
         IN  IF r.threw THEN [threw |-> TRUE, buttons |-> buttons, out |-> old]
             ELSE [threw |-> FALSE,
                   buttons |-> ActivateLabel(buttons, typeFilter),
                   out |-> r.out]
    ELSE IF Len(data.items) > 0
    THEN LET firstItem == data.items[1]
         IN  IF firstItem.obj /\ firstItem.type # ""
             THEN LET r == displayContentByType(data, firstItem.type, fileValue,
                                                filter, old)
                  IN  IF r.threw
                      THEN [threw |-> TRUE, buttons |-> buttons, out |-> old]
                      ELSE [threw |-> FALSE,
                            buttons |-> ActivateFirst(buttons),
                            out |-> r.out]
             ELSE [threw |-> FALSE, buttons |-> buttons, out |-> old]
    ELSE [threw |-> FALSE, buttons |-> buttons,
          out |-> Message("noContentInFile")]

\* updateTypeButtons() followed by displaySelectedContent(), as
\* handleFileSelection and useSampleData call them.
UpdateAndDisplay(build, data, buttons, fileValue, filter, old) ==
    LET u == updateTypeButtons(build, data, buttons)
    IN  IF u.threw THEN [threw |-> TRUE, buttons |-> u.buttons, out |-> old]
        ELSE displaySelectedContent(data, u.buttons, fileValue, filter, old)

(***************************************************************************)
(* What the remote side and the built-in dataset hold.                     *)
(***************************************************************************)
\* A Document whose target category matches the filter; another category
\* holds the filter text too.
MatchingDoc ==
    Arr(<<Entry(typeFilter, <<"b", "a", "b">>), Entry("architecture", <<"a", "b">>)>>)

\* No match; the first entry's category is not the first in sorted order.
PlainDoc == Arr(<<Entry("usage", <<"b">>), Entry("architecture", <<"a">>)>>)

\* The first record is ill-formed, the second is a well-formed entry.
IllFormedFirstDoc == Arr(<<NullItem, Entry("architecture", <<"a">>)>>)

\* An entry whose summary is truthy and no string.
NumberSummaryDoc ==
    Arr(<<Entry("usage", <<"b">>), Item(TRUE, "architecture", "number", <<>>)>>)

EmptyDoc == Arr(<<>>)

\* The bodies a candidate's URL may answer with (valid JSON).
ServerBodies ==
    {MatchingDoc, PlainDoc, IllFormedFirstDoc, NumberSummaryDoc, EmptyDoc,
     ObjectData, NullData}

\* The document part_000's loadJsonFile returns for a load that failed.
ErrorDoc == Arr(<<Entry("error", <<"b">>)>>)

\* The built-in sample dataset: file names and their Documents.
SampleFile(i) == [src |-> "sample", n |-> i, learnings |-> TRUE]

SampleKeys == <<SampleFile(1), SampleFile(2)>>

SAMPLE_DATA(f) == IF f = SampleFile(1) THEN MatchingDoc ELSE PlainDoc

IsSample(f) == f.src = "sample"

\* a name of the manifest that does not end with '_learnings.json'
OtherFile == [src |-> "remote", n |-> 0, learnings |-> FALSE]

Candidates(n) == [i \in 1..n |-> RemoteFile(i)]

\* The arrays file_manifest.json may hold.
ManifestBodies ==
    {Candidates(n) : n \in 0..MaxFiles}
        \cup {<<OtherFile>> \o Candidates(n) : n \in 1..MaxFiles}

(***************************************************************************)
(* State.                                                                  *)
(***************************************************************************)
VARIABLES
    viewer,            \* "script" or "manifest": the build the page runs
    contentFilter,     \* this.contentFilter
    availableFiles,    \* this.availableFiles (script.js)
    jsonFiles,         \* this.jsonFiles
    currentJsonData,   \* this.currentJsonData
    fileOptions,       \* the <option>s of #file-select
    fileValue,         \* #file-select's value
    typeButtons,       \* #type-buttons
    contentOutput,     \* #content-output
    filterInfo,        \* #filter-info
    statusMessage,     \* #status-message: [visible, type, text, by]
    loadingIndicator,  \* #loading-indicator is displayed
    listening,         \* the 'change' listener is attached
    pc,                \* where the startup chain (init) stands
    idx,               \* the discovery loop's position in its list
    loadedFiles,       \* tryLoadingFiles' loadedFiles
    filteredFiles,     \* the discovery loop's filteredFiles
    loads,             \* the pending loadJsonFile calls, oldest first
    hideTimer,         \* the 3 s timer that hides the status line is pending
    uncaught,          \* an error left its operation uncaught
    outcome,           \* history: what each candidate's discovery load gave
    docFile,           \* history: the file currentJsonData was loaded from
    latest             \* history: the most recent selection and how it ended

vars ==
    <<viewer, contentFilter, availableFiles, jsonFiles, currentJsonData,
      fileOptions, fileValue, typeButtons, contentOutput, filterInfo,
      statusMessage, loadingIndicator, listening, pc, idx, loadedFiles,
      filteredFiles, loads, hideTimer, uncaught, outcome, docFile, latest>>

config == <<viewer, contentFilter, availableFiles>>

discovery == <<idx, loadedFiles, filteredFiles, outcome>>

selector == <<fileOptions, fileValue, filterInfo, listening, jsonFiles>>

Status(type, text, by) == [visible |-> TRUE, type |-> type, text |-> text, by |-> by]

NoStatus == [visible |-> FALSE, type |-> "", text |-> "", by |-> ""]

Load(owner, file) == [owner |-> owner, file |-> file, phase |-> "fetch"]

Remove(seq, i) == SubSeq(seq, 1, i - 1) \o SubSeq(seq, i + 1, Len(seq))

Range(seq) == {seq[k] : k \in 1..Len(seq)}

NoSelection == [file |-> NoFile, state |-> "none"]

\* The page after the constructor has run, before init() has.
Constructed(build) ==
    /\ viewer = build
    /\ contentFilter = DefaultFilter
    /\ availableFiles \in (IF build = "script"
                           THEN {Candidates(n) : n \in 0..MaxFiles}
                           ELSE {<<>>})
    /\ jsonFiles = <<>>
    /\ currentJsonData = NullData
    /\ fileOptions = <<>>
    /\ fileValue = NoFile
    /\ typeButtons = NoButtons
    /\ contentOutput = InitialOut
    /\ filterInfo = [kind |-> "initial", count |-> 0]
    /\ statusMessage = NoStatus
    /\ loadingIndicator = FALSE
    /\ listening = FALSE
    /\ pc = "boot"
    /\ idx = 0
    /\ loadedFiles = <<>>
    /\ filteredFiles = <<>>
    /\ loads = <<>>
    /\ hideTimer = FALSE
    /\ uncaught = FALSE
    /\ outcome = <<>>
    /\ docFile = NoFile
    /\ latest = NoSelection

(***************************************************************************)
(* Pieces of the handlers.                                                 *)
(***************************************************************************)
updateFilterInfo(count) ==
    [kind |-> IF count > 0 THEN "showing" ELSE "none", count |-> count]

\* script.js:88 / part_000:43
DisplayFiles(filtered, all) == IF Len(filtered) > 0 THEN filtered ELSE all

\* script.js:72-75: the catch of one candidate's load pushes nothing
AfterFileError(loaded, file) == loaded

\* The effect of handleFileSelection once its load has settled (ok: the load
\* gave data) while the selector shows value: the new currentJsonData,
\* buttons and output, and whether an error was raised on the way.
Handled(build, ok, data, value) ==
    IF ~ok
    THEN [data |-> currentJsonData, buttons |-> typeButtons,
          out |-> contentOutput, threw |-> TRUE]
    ELSE LET r == UpdateAndDisplay(build, data, typeButtons, value,
                                   contentFilter, contentOutput)
         IN  [data |-> data, buttons |-> r.buttons, out |-> r.out,
              threw |-> r.threw]

\* whether a Document is relevant in the sense of the discovery contract
Relevant(data, filter) ==
    /\ data.kind = "array"
    /\ \E k \in 1..Len(data.items) :
          /\ data.items[k].obj
          /\ data.items[k].type = typeFilter
          /\ data.items[k].sumKind = "string"
          /\ Includes(data.items[k].summary, filter)

Verdict(ok, data) ==
    IF ~ok THEN "failed"
    ELSE IF Relevant(data, contentFilter) THEN "matched" ELSE "loaded"

SelectLoads == {k \in 1..Len(loads) : loads[k].owner = "select"}

(***************************************************************************)
(* script.js: startup.                                                     *)
(***************************************************************************)
\* useSampleData(), reached from init's catch: tryLoadingFiles has hidden
\* the loading indicator and rethrown, init has shown the error status.
useSampleData ==
    LET firstFile == SampleKeys[1]
        r == UpdateAndDisplay("script", SAMPLE_DATA(firstFile), typeButtons,
                              firstFile, contentFilter, contentOutput)
    IN  /\ jsonFiles' = SampleKeys
        /\ filterInfo' = updateFilterInfo(Len(SampleKeys))
        /\ fileOptions' = SampleKeys
        /\ listening' = TRUE
        /\ fileValue' = firstFile
        /\ currentJsonData' = SAMPLE_DATA(firstFile)
        /\ typeButtons' = r.buttons
        /\ contentOutput' = r.out
        /\ uncaught' = (uncaught \/ r.threw)
        /\ docFile' = firstFile
        /\ latest' = [file |-> firstFile, state |-> "ok"]
        /\ statusMessage' = Status("error", "usingSampleData", "init")
        /\ loadingIndicator' = FALSE
        /\ loads' = <<>>
        /\ pc' = "done"
        /\ UNCHANGED hideTimer

\* init() up to its first await: tryLoadingFiles starts the first load.
Start ==
    /\ viewer = "script"
    /\ pc = "boot"
    /\ UNCHANGED config
    /\ IF availableFiles = <<>>
       THEN /\ useSampleData
            /\ UNCHANGED discovery
       ELSE /\ loadingIndicator' = TRUE
            /\ statusMessage' = Status("info", "attempting", "init")
            /\ loads' = <<Load("discovery", availableFiles[1])>>
            /\ idx' = 1
            /\ pc' = "discovering"
            /\ UNCHANGED <<selector, currentJsonData, typeButtons, contentOutput,
                           loadedFiles, filteredFiles, outcome, hideTimer,
                           uncaught, docFile, latest>>

\* The discovery loop after the load of candidate idx has settled.
Discovered(i, ok, data) ==
    LET file == loads[i].file
        loaded == IF ok THEN Append(loadedFiles, file)
                  ELSE AfterFileError(loadedFiles, file)
        filtered == IF ok /\ fileContainsFilteredContent("script", data,
                                                         contentFilter).result
                    THEN Append(filteredFiles, file) ELSE filteredFiles
        displayFiles == DisplayFiles(filtered, loaded)
    IN  /\ loadedFiles' = loaded
        /\ filteredFiles' = filtered
        /\ outcome' = Append(outcome, Verdict(ok, data))
        /\ UNCHANGED config
        /\ IF idx < Len(availableFiles)
           THEN /\ idx' = idx + 1
                /\ loads' = <<Load("discovery", availableFiles[idx + 1])>>
                /\ UNCHANGED <<selector, currentJsonData, typeButtons,
                               contentOutput, statusMessage, loadingIndicator,
                               pc, hideTimer, uncaught, docFile, latest>>
           ELSE IF Len(loaded) = 0
           THEN /\ idx' = idx
                /\ useSampleData
           ELSE /\ idx' = idx
                /\ jsonFiles' = loaded
                /\ filterInfo' = updateFilterInfo(Len(filtered))
                /\ fileOptions' = displayFiles
                /\ listening' = TRUE
                /\ fileValue' = displayFiles[1]
                /\ loads' = <<Load("first", displayFiles[1])>>
                /\ latest' = [file |-> displayFiles[1], state |-> "pending"]
                /\ pc' = "first"
                /\ UNCHANGED <<currentJsonData, typeButtons, contentOutput,
                               statusMessage, loadingIndicator, hideTimer,
                               uncaught, docFile>>

\* How the most recent selection ended, once the load of file has settled.
Ended(i, failed) ==
    IF latest.state = "pending" /\ i = Len(loads)
    THEN [latest EXCEPT !.state = IF failed THEN "failed" ELSE "ok"]
    ELSE latest

\* tryLoadingFiles after its own handleFileSelection(displayFiles[0]).
FirstLoaded(i, ok, data) ==
    LET h == Handled("script", ok, data, fileValue)
    IN  /\ currentJsonData' = h.data
        /\ typeButtons' = h.buttons
        /\ contentOutput' = h.out
        /\ docFile' = IF ok THEN loads[i].file ELSE docFile
        /\ latest' = Ended(i, h.threw)
        /\ statusMessage' = Status("info", "loadedFiles", "init")
        /\ hideTimer' = TRUE
        /\ loadingIndicator' = FALSE
        /\ loads' = Remove(loads, i)
        /\ pc' = "done"
        /\ UNCHANGED <<config, discovery, selector, uncaught>>

\* The 'change' listener after its handleFileSelection has settled.
Selected(i, ok, data) ==
    LET h == Handled("script", ok, data, fileValue)
    IN  /\ currentJsonData' = h.data
        /\ typeButtons' = h.buttons
        /\ contentOutput' = h.out
        /\ docFile' = IF ok THEN loads[i].file ELSE docFile
        /\ latest' = Ended(i, h.threw)
        /\ statusMessage' = IF h.threw
                            THEN Status("error", "selectionError", "select")
                            ELSE statusMessage
        /\ loadingIndicator' = FALSE
        /\ loads' = Remove(loads, i)
        /\ UNCHANGED <<config, discovery, selector, pc, hideTimer, uncaught>>

\* loadJsonFile has settled for the pending load i.
Settled(i, ok, data) ==
    \/ loads[i].owner = "discovery" /\ Discovered(i, ok, data)
    \/ loads[i].owner = "first" /\ FirstLoaded(i, ok, data)
    \/ loads[i].owner = "select" /\ Selected(i, ok, data)

(***************************************************************************)
(* script.js: loadJsonFile (169-198).  A pending load is in phase "fetch"  *)
(* until the response's headers arrive, then in phase "body" while         *)
(* response.json() reads and parses the body.  The 5 s abort timer is      *)
(* armed during "fetch" only: clearTimeout runs as soon as fetch resolves. *)
(***************************************************************************)
\* fetch rejects: a network error
FetchRejects(i) ==
    /\ viewer = "script"
    /\ loads[i].phase = "fetch"
    /\ Settled(i, FALSE, NullData)

\* the 5 s timer fires: controller.abort() rejects the fetch
TimeoutAbort(i) ==
    /\ viewer = "script"
    /\ loads[i].phase = "fetch"
    /\ Settled(i, FALSE, NullData)

\* fetch resolves with a response: "ok", an HTTP error status, or a
\* content type that is not application/json
ResponseArrives(i, response) ==
    /\ viewer = "script"
    /\ loads[i].phase = "fetch"
    /\ IF response = "ok"
       THEN /\ loads' = [loads EXCEPT ![i].phase = "body"]
            /\ UNCHANGED <<config, discovery, selector, currentJsonData,
                           typeButtons, contentOutput, statusMessage,
                           loadingIndicator, pc, hideTimer, uncaught, docFile,
                           latest>>
       ELSE /\ Settled(i, FALSE, NullData)

\* response.json() rejects: the body is not JSON
BodyMalformed(i) ==
    /\ viewer = "script"
    /\ loads[i].phase = "body"
    /\ Settled(i, FALSE, NullData)

\* response.json() resolves with the parsed body
BodyParsed(i, body) ==
    /\ viewer = "script"
    /\ loads[i].phase = "body"
    /\ Settled(i, TRUE, body)

(***************************************************************************)
(* script.js: the user's operations and the status timer.                  *)
(***************************************************************************)
\* The user picks another option of #file-select: the 'change' listener
\* (200-211) up to its await, and all of it for a sample file.
SelectFile(f) ==
    /\ viewer = "script"
    /\ listening
    /\ f \in Range(fileOptions)
    /\ f # fileValue
    /\ fileValue' = f
    /\ UNCHANGED <<config, discovery, fileOptions, filterInfo, listening,
                   jsonFiles, pc, hideTimer, uncaught>>
    /\ IF IsSample(f)
       THEN LET h == Handled("script", TRUE, SAMPLE_DATA(f), f)
            IN  /\ currentJsonData' = h.data
                /\ typeButtons' = h.buttons
                /\ contentOutput' = h.out
                /\ docFile' = f
                /\ latest' = [file |-> f,
                              state |-> IF h.threw THEN "failed" ELSE "ok"]
                /\ statusMessage' = IF h.threw
                                    THEN Status("error", "selectionError", "select")
                                    ELSE statusMessage
                /\ loadingIndicator' = FALSE
                /\ UNCHANGED loads
       ELSE /\ Cardinality(SelectLoads) < MaxLoads
            /\ loads' = Append(loads, Load("select", f))
            /\ loadingIndicator' = TRUE
            /\ latest' = [file |-> f, state |-> "pending"]
            /\ UNCHANGED <<currentJsonData, typeButtons, contentOutput,
                           statusMessage, docFile>>

\* The click listener of the k-th category button (254-262; part_000
\* 126-134): it has no try/catch.
ClickCategory(k) ==
    /\ k \in 1..Len(typeButtons.list)
    /\ LET type == typeButtons.list[k].label
           r == displayContentByType(currentJsonData, type, fileValue,
                                     contentFilter, contentOutput)
       IN  /\ typeButtons' =
                 [typeButtons EXCEPT !.list =
                     [j \in 1..Len(typeButtons.list) |->
                         [typeButtons.list[j] EXCEPT !.active = (j = k)]]]
           /\ contentOutput' = r.out
           /\ uncaught' = (uncaught \/ r.threw)
    /\ UNCHANGED <<config, discovery, selector, currentJsonData, statusMessage,
                   loadingIndicator, pc, loads, hideTimer, docFile, latest>>

\* setTimeout(() => this.hideStatusMessage(), 3000) fires (script.js:107)
HideStatusTimer ==
    /\ hideTimer
    /\ hideTimer' = FALSE
    /\ statusMessage' = [statusMessage EXCEPT !.visible = FALSE]
    /\ UNCHANGED <<config, discovery, selector, currentJsonData, typeButtons,
                   contentOutput, loadingIndicator, pc, loads, uncaught, docFile,
                   latest>>

(***************************************************************************)
(* The page running script.js.                                             *)
(***************************************************************************)
Init == Constructed("script")

Next ==
    \/ Start
    \/ \E i \in 1..Len(loads) : FetchRejects(i)
    \/ \E i \in 1..Len(loads) : TimeoutAbort(i)
    \/ \E i \in 1..Len(loads) : \E r \in {"ok", "httpError", "notJson"} :
          ResponseArrives(i, r)
    \/ \E i \in 1..Len(loads) : BodyMalformed(i)
    \/ \E i \in 1..Len(loads) : \E body \in ServerBodies : BodyParsed(i, body)
    \/ \E f \in Range(fileOptions) : SelectFile(f)
    \/ \E k \in 1..Len(typeButtons.list) : ClickCategory(k)
    \/ HideStatusTimer

Spec == Init /\ [][Next]_vars

(***************************************************************************)
(* part_000: the build that reads file_manifest.json.                      *)
(* Its loadJsonFile (86-94) has no timeout and no check of the response;   *)
(* it catches every failure and returns ErrorDoc.                          *)
(***************************************************************************)
ManifestFile == [src |-> "manifest", n |-> 0, learnings |-> FALSE]

\* init() up to its first await: fetchJsonFiles fetches the manifest.
MStart ==
    /\ viewer = "manifest"
    /\ pc = "boot"
    /\ loads' = <<Load("manifest", ManifestFile)>>
    /\ pc' = "manifest"
    /\ UNCHANGED <<config, discovery, selector, currentJsonData, typeButtons,
                   contentOutput, statusMessage, loadingIndicator, hideTimer,
                   uncaught, docFile, latest>>

\* The catch of fetchJsonFiles (59-62), then init's setupEventListeners().
MDiscoveryFailed ==
    /\ contentOutput' = Message("errorLoadingFiles")
    /\ listening' = TRUE
    /\ loads' = <<>>
    /\ pc' = "done"

\* fetchJsonFiles after the manifest's load has settled (25-37).
MManifestLoaded(ok, files) ==
    LET learnings == SelectSeq(files, LAMBDA f : f.learnings)
    IN  /\ UNCHANGED <<config, currentJsonData, typeButtons, statusMessage,
                       loadingIndicator, hideTimer, uncaught, docFile, latest,
                       fileValue, loadedFiles, filteredFiles, outcome>>
        /\ IF ~ok
           THEN /\ MDiscoveryFailed
                /\ UNCHANGED <<jsonFiles, fileOptions, filterInfo, idx>>
           ELSE IF learnings = <<>>
           THEN /\ jsonFiles' = learnings
                /\ filterInfo' = updateFilterInfo(0)
                /\ fileOptions' = <<>>
                /\ listening' = TRUE
                /\ loads' = <<>>
                /\ pc' = "done"
                /\ UNCHANGED <<contentOutput, idx>>
           ELSE /\ jsonFiles' = learnings
                /\ loads' = <<Load("discovery", learnings[1])>>
                /\ idx' = 1
                /\ pc' = "discovering"
                /\ UNCHANGED <<fileOptions, filterInfo, listening, contentOutput>>

\* The discovery loop (32-58) after the load of candidate idx has returned.
MDiscovered(i, ok, data) ==
    LET file == loads[i].file
        fileData == IF ok THEN data ELSE ErrorDoc
        c == fileContainsFilteredContent("manifest", fileData, contentFilter)
        filtered == IF c.result THEN Append(filteredFiles, file)
                    ELSE filteredFiles
        displayFiles == DisplayFiles(filtered, jsonFiles)
    IN  /\ outcome' = Append(outcome, Verdict(ok, data))
        /\ UNCHANGED <<config, jsonFiles, currentJsonData, typeButtons,
                       statusMessage, loadingIndicator, hideTimer, uncaught,
                       docFile, loadedFiles>>
        /\ IF c.threw
           THEN /\ MDiscoveryFailed
                /\ UNCHANGED <<filteredFiles, idx, fileOptions, fileValue,
                               filterInfo, latest>>
           ELSE IF idx < Len(jsonFiles)
           THEN /\ filteredFiles' = filtered
                /\ idx' = idx + 1
                /\ loads' = <<Load("discovery", jsonFiles[idx + 1])>>
                /\ UNCHANGED <<fileOptions, fileValue, filterInfo, listening,
                               contentOutput, pc, latest>>
           ELSE /\ filteredFiles' = filtered
                /\ filterInfo' = updateFilterInfo(Len(filtered))
                /\ fileOptions' = displayFiles
                /\ fileValue' = displayFiles[1]
                /\ loads' = <<Load("first", displayFiles[1])>>
                /\ latest' = [file |-> displayFiles[1], state |-> "pending"]
                /\ pc' = "first"
                /\ UNCHANGED <<idx, listening, contentOutput>>

\* fetchJsonFiles after its own handleFileSelection (57), which has no
\* try/catch: an error it raises lands in fetchJsonFiles' catch.
MFirstLoaded(i, ok, data) ==
    LET fileData == IF ok THEN data ELSE ErrorDoc
        h == Handled("manifest", TRUE, fileData, fileValue)
    IN  /\ currentJsonData' = h.data
        /\ typeButtons' = h.buttons
        /\ contentOutput' = IF h.threw THEN Message("errorLoadingFiles")
                            ELSE h.out
        /\ docFile' = loads[i].file
        /\ latest' = Ended(i, ~ok \/ h.threw)
        /\ listening' = TRUE
        /\ loads' = Remove(loads, i)
        /\ pc' = "done"
        /\ UNCHANGED <<config, discovery, jsonFiles, fileOptions, fileValue,
                       filterInfo, statusMessage, loadingIndicator, hideTimer,
                       uncaught>>

\* The 'change' listener (97-99) after its load has returned: an error
\* raised by handleFileSelection rejects the listener's promise unhandled.
MSelected(i, ok, data) ==
    LET fileData == IF ok THEN data ELSE ErrorDoc
        h == Handled("manifest", TRUE, fileData, fileValue)
    IN  /\ currentJsonData' = h.data
        /\ typeButtons' = h.buttons
        /\ contentOutput' = h.out
        /\ docFile' = loads[i].file
        /\ latest' = Ended(i, ~ok \/ h.threw)
        /\ uncaught' = (uncaught \/ h.threw)
        /\ loads' = Remove(loads, i)
        /\ UNCHANGED <<config, discovery, selector, statusMessage,
                       loadingIndicator, pc, hideTimer>>

\* loadJsonFile has returned for the pending load i.
MSettled(i, ok, data) ==
    \/ loads[i].owner = "discovery" /\ MDiscovered(i, ok, data)
    \/ loads[i].owner = "first" /\ MFirstLoaded(i, ok, data)
    \/ loads[i].owner = "select" /\ MSelected(i, ok, data)

\* fetch rejects: a network error
MFetchRejects(i) ==
    /\ viewer = "manifest"
    /\ loads[i].phase = "fetch"
    /\ IF loads[i].owner = "manifest"
       THEN MManifestLoaded(FALSE, <<>>)
       ELSE MSettled(i, FALSE, NullData)

\* fetch resolves, whatever the response's status and content type
MResponseArrives(i) ==
    /\ viewer = "manifest"
    /\ loads[i].phase = "fetch"
    /\ loads' = [loads EXCEPT ![i].phase = "body"]
    /\ UNCHANGED <<config, discovery, selector, currentJsonData, typeButtons,
                   contentOutput, statusMessage, loadingIndicator, pc,
                   hideTimer, uncaught, docFile, latest>>

\* response.json() rejects: the body is not JSON
MBodyMalformed(i) ==
    /\ viewer = "manifest"
    /\ loads[i].phase = "body"
    /\ IF loads[i].owner = "manifest"
       THEN MManifestLoaded(FALSE, <<>>)
       ELSE MSettled(i, FALSE, NullData)

\* response.json() resolves with a candidate's parsed body
MBodyParsed(i, body) ==
    /\ viewer = "manifest"
    /\ loads[i].phase = "body"
    /\ loads[i].owner # "manifest"
    /\ MSettled(i, TRUE, body)

\* response.json() resolves with the manifest's array of names
MManifestParsed(i, files) ==
    /\ viewer = "manifest"
    /\ loads[i].phase = "body"
    /\ loads[i].owner = "manifest"
    /\ MManifestLoaded(TRUE, files)

\* The user picks another option of #file-select (97-103).
MSelectFile(f) ==
    /\ viewer = "manifest"
    /\ listening
    /\ f \in Range(fileOptions)
    /\ f # fileValue
    /\ Cardinality(SelectLoads) < MaxLoads
    /\ fileValue' = f
    /\ loads' = Append(loads, Load("select", f))
    /\ latest' = [file |-> f, state |-> "pending"]
    /\ UNCHANGED <<config, discovery, fileOptions, filterInfo, listening,
                   jsonFiles, pc, hideTimer, uncaught, currentJsonData,
                   typeButtons, contentOutput, statusMessage, loadingIndicator,
                   docFile>>

(***************************************************************************)
(* The page running part_000, and the page running either build.           *)
(***************************************************************************)
InitManifest == Constructed("manifest")

NextManifest ==
    \/ MStart
    \/ \E i \in 1..Len(loads) : MFetchRejects(i)
    \/ \E i \in 1..Len(loads) : MResponseArrives(i)
    \/ \E i \in 1..Len(loads) : MBodyMalformed(i)
    \/ \E i \in 1..Len(loads) : \E body \in ServerBodies : MBodyParsed(i, body)
    \/ \E i \in 1..Len(loads) : \E files \in ManifestBodies :
          MManifestParsed(i, files)
    \/ \E f \in Range(fileOptions) : MSelectFile(f)
    \/ \E k \in 1..Len(typeButtons.list) : ClickCategory(k)

SpecManifest == InitManifest /\ [][NextManifest]_vars

InitAll == Init \/ InitManifest

NextAll == Next \/ NextManifest

SpecAll == InitAll /\ [][NextAll]_vars

(***************************************************************************)
(* Startup discovery (C1, C2).                                             *)
(***************************************************************************)
\* The candidates discovery runs over: the hard-coded list, or the names of
\* the manifest that end with '_learnings.json'.
CandidateList == IF viewer = "script" THEN availableFiles ELSE jsonFiles

\* Discovery has ended: the selector has been filled, or discovery failed.
DiscoveryOver == pc \in {"first", "done"}

\* The candidates, in discovery order, whose recorded outcome is in kinds.
CandidatesWith(kinds) ==
    SelectSeq(CandidateList,
              LAMBDA f : f.n \in DOMAIN outcome /\ outcome[f.n] \in kinds)

\* What the display policy of the discovery contract asks the selector to
\* show.
ExpectedOptions ==
    IF CandidatesWith({"matched"}) # <<>> THEN CandidatesWith({"matched"})
    ELSE IF CandidatesWith({"matched", "loaded"}) # <<>>
    THEN CandidatesWith({"matched", "loaded"})
    ELSE SampleKeys

DisplayPolicy == DiscoveryOver => fileOptions = ExpectedOptions /\ fileOptions # <<>>

\* C1: after startup discovery the file selector shows the matched
\* candidates if any matched, else all the candidates that loaded, else the
\* names of the sample dataset; the list is never empty and is in discovery
\* order.
C1_DisplayPolicy == DisplayPolicy

\* part_000 has read a manifest of one candidate whose body is valid JSON
\* and no array: the candidate loaded, and the selector is empty.
C1_Witness ==
    /\ viewer = "manifest"
    /\ pc = "done"
    /\ jsonFiles = Candidates(1)
    /\ outcome = <<"loaded">>
    /\ fileOptions = <<>>
    /\ contentOutput = Message("errorLoadingFiles")

\* The display policy, stated of the page that runs script.js only.
ScriptDisplayPolicy == viewer = "script" => DisplayPolicy

\* Every candidate was loaded and tested, and a candidate whose load failed
\* is neither in the loaded set nor in the selector.
FailuresSkipped ==
    DiscoveryOver =>
        \A k \in 1..Len(CandidateList) :
            /\ k \in DOMAIN outcome
            /\ outcome[k] = "failed" =>
                  /\ CandidateList[k] \notin Range(jsonFiles)
                  /\ CandidateList[k] \notin Range(fileOptions)

\* C2: a candidate whose load fails is left out of the loaded set and of
\* the selector, and every candidate after it is still loaded and tested.
C2_FailuresSkipped == FailuresSkipped

\* part_000 after a discovery whose first candidate failed to load: the
\* candidate is in the loaded set and in the selector, and its error
\* document is the current Document.
C2_Witness ==
    /\ viewer = "manifest"
    /\ pc = "done"
    /\ outcome = <<"failed", "loaded">>
    /\ jsonFiles = Candidates(2)
    /\ fileOptions = Candidates(2)
    /\ currentJsonData = ErrorDoc

\* The same, stated of the page that runs script.js only.
ScriptFailuresSkipped == viewer = "script" => FailuresSkipped

(***************************************************************************)
(* File selection in script.js (C3 - C8).                                  *)
(***************************************************************************)
\* The status line shows the error of a user's selection.
SelectionErrorShown ==
    /\ statusMessage.visible
    /\ statusMessage.type = "error"
    /\ statusMessage.by = "select"

\* The load i of a user's selection ends in a failure: the fetch rejects or
\* times out, the response is refused, the body is not JSON, or the parsed
\* body is no array of entries.
SelectionLoadFails(i) ==
    /\ loads[i].owner = "select"
    /\ \/ FetchRejects(i)
       \/ TimeoutAbort(i)
       \/ \E r \in {"httpError", "notJson"} : ResponseArrives(i, r)
       \/ BodyMalformed(i)

SelectionUnusable(i) ==
    /\ loads[i].owner = "select"
    /\ \E body \in ServerBodies : body.kind # "array" /\ BodyParsed(i, body)

\* C3: if selectFile fails at any step (the load fails, or the loaded body
\* is not a usable Document), the current Document, the category buttons
\* and the rendered content are what they were before the selection.
C3_FailureLeavesState ==
    [][(\E i \in 1..Len(loads) : SelectionLoadFails(i) \/ SelectionUnusable(i))
          => /\ currentJsonData' = currentJsonData
             /\ typeButtons' = typeButtons
             /\ contentOutput' = contentOutput]_vars

\* script.js after the user selected a file whose body is a JSON object: the
\* error is shown, the object is the current Document, the buttons are gone
\* and the output still shows the previous file.
C3_Witness ==
    /\ viewer = "script"
    /\ SelectionErrorShown
    /\ currentJsonData = ObjectData
    /\ typeButtons = NoButtons
    /\ contentOutput.kind = "category"
    /\ contentOutput.repo # fileValue

\* C4: once no load is in flight and the most recent selection has
\* succeeded, the current Document is the one loaded for the file the
\* selector shows: a stale load never overwrites a later selection.
C4_LastSelectionWins ==
    (loads = <<>> /\ latest.state = "ok") => docFile = fileValue

\* script.js with no load in flight: the selector shows the second file,
\* whose selection succeeded, and the current Document is the first file's.
C4_Witness ==
    /\ viewer = "script"
    /\ loads = <<>>
    /\ fileValue = RemoteFile(2)
    /\ latest = [file |-> RemoteFile(2), state |-> "ok"]
    /\ docFile = RemoteFile(1)

\* The first well-formed entry of a Document, if any.
WellFormed(item) == item.obj /\ item.type # ""

HasWellFormed(data) == \E k \in 1..Len(data.items) : WellFormed(data.items[k])

FirstWellFormed(data) ==
    data.items[CHOOSE k \in 1..Len(data.items) :
                  /\ WellFormed(data.items[k])
                  /\ \A j \in 1..(k - 1) : ~WellFormed(data.items[j])]

\* The output that the priority rule of selectFile asks for.
PriorityHolds(data, out) ==
    IF Relevant(data, contentFilter)
    THEN out.kind = "category" /\ out.cat = typeFilter
    ELSE IF HasWellFormed(data)
    THEN out.kind = "category" /\ out.cat = FirstWellFormed(data).type
    ELSE out.kind \in {"noContentInFile", "noContentForType"}

\* The load i of a user's selection gives the Document body, and
\* handleFileSelection raises no error.
SelectionSucceeds(i, body) ==
    /\ loads[i].owner = "select"
    /\ body.kind = "array"
    /\ ~Handled("script", TRUE, body, fileValue).threw
    /\ BodyParsed(i, body)

\* C5: after a successful selectFile of Document D the rendered category is
\* the target category if D has a matching entry, else the category of D's
\* first well-formed entry, else none, with an empty-state message.
C5_ActiveCategoryPriority ==
    [][\A i \in 1..Len(loads) : \A body \in ServerBodies :
          SelectionSucceeds(i, body) => PriorityHolds(body, contentOutput')]_vars

\* script.js after the user selected a file whose Document starts with an
\* ill-formed record: the selection succeeded, the output still shows the
\* previous file, and no button is active.
C5_Witness ==
    /\ viewer = "script"
    /\ loads = <<>>
    /\ latest = [file |-> fileValue, state |-> "ok"]
    /\ docFile = fileValue
    /\ currentJsonData = IllFormedFirstDoc
    /\ contentOutput.kind = "category"
    /\ contentOutput.repo # fileValue
    /\ \A k \in 1..Len(typeButtons.list) : ~typeButtons.list[k].active

ActiveButtons == {k \in 1..Len(typeButtons.list) : typeButtons.list[k].active}

\* C6: whenever a Document is loaded, exactly one category button carries
\* the active mark and one category is rendered.  Stated of the Documents
\* that have a category at all.
C6_OneActiveCategory ==
    (currentJsonData.kind = "array" /\ HasWellFormed(currentJsonData))
        => Cardinality(ActiveButtons) = 1 /\ contentOutput.kind = "category"

\* script.js after startup has loaded a Document that starts with an
\* ill-formed record: one button, not active, and nothing rendered.
C6_Witness ==
    /\ viewer = "script"
    /\ pc = "done"
    /\ currentJsonData = IllFormedFirstDoc
    /\ Len(typeButtons.list) = 1
    /\ ActiveButtons = {}
    /\ contentOutput = InitialOut

UserAction ==
    \/ \E f \in Range(fileOptions) : SelectFile(f)
    \/ \E k \in 1..Len(typeButtons.list) : ClickCategory(k)

\* C7: when a user's selection fails to load, an error status becomes
\* visible, and nothing but a further user action hides or overwrites it.
C7_ErrorStaysVisible ==
    [][/\ (\E i \in 1..Len(loads) : SelectionLoadFails(i)) => SelectionErrorShown'
       /\ (SelectionErrorShown /\ ~UserAction) => SelectionErrorShown']_vars

\* script.js: the user's selection of the second file has failed, no user
\* action followed, and the status line shows "Loaded N files successfully".
C7_Witness ==
    /\ viewer = "script"
    /\ latest = [file |-> RemoteFile(2), state |-> "failed"]
    /\ fileValue = RemoteFile(2)
    /\ statusMessage = Status("info", "loadedFiles", "init")

\* C8: no error escapes an operation as an uncaught exception or an
\* unhandled rejection.
C8_NoUncaughtError == ~uncaught

\* script.js after a click on a category one of whose summaries is a number.
C8_Witness ==
    /\ viewer = "script"
    /\ currentJsonData = NumberSummaryDoc
    /\ uncaught

(***************************************************************************)
(* Termination of loads in script.js (C9).                                 *)
(* The browser fires a timer that is armed, so TimeoutAbort is weakly fair *)
(* for every pending load; nothing obliges the remote side to answer, so   *)
(* the steps that deliver a response or a body are not.                    *)
(***************************************************************************)
FairSpec ==
    /\ Spec
    /\ \A i \in 1..(MaxLoads + 1) : WF_vars(i <= Len(loads) /\ TimeoutAbort(i))
    /\ WF_vars(HideStatusTimer)

InFlight(owner, n) ==
    \E i \in 1..Len(loads) :
        loads[i].owner = owner /\ loads[i].file = RemoteFile(n)

\* C9: every load that is started eventually ends, whether the remote side
\* answers or not.
C9_EveryLoadEnds ==
    \A owner \in {"discovery", "first", "select"} : \A n \in 1..MaxFiles :
        InFlight(owner, n) ~> ~InFlight(owner, n)

(***************************************************************************)
(* Rendering a category (C10): displayContentByType over Documents of      *)
(* well-formed entries and over every content filter of Filters.           *)
(***************************************************************************)
Strings(n) == UNION {[1..m -> Chars] : m \in 0..n}

\* The summaries drawn: every short text, and each filter twice in a row.
RenderSummaries == Strings(MaxSummary) \cup {f \o f : f \in Filters}

RenderEntries == {Entry(t, s) : t \in {typeFilter, "usage"}, s \in RenderSummaries}

RenderDocs == {Arr(items) : items \in UNION {[1..m -> RenderEntries] : m \in 1..MaxEntries}}

\* The page showing one file whose Document has been loaded and whose
\* category buttons have been built.
InitRender ==
    /\ viewer = "script"
    /\ contentFilter \in Filters
    /\ availableFiles = Candidates(1)
    /\ jsonFiles = Candidates(1)
    /\ currentJsonData \in RenderDocs
    /\ fileOptions = Candidates(1)
    /\ fileValue = RemoteFile(1)
    /\ typeButtons = updateTypeButtons("script", currentJsonData, NoButtons).buttons
    /\ contentOutput = InitialOut
    /\ filterInfo = updateFilterInfo(0)
    /\ statusMessage = NoStatus
    /\ loadingIndicator = FALSE
    /\ listening = TRUE
    /\ pc = "done"
    /\ idx = 1
    /\ loadedFiles = Candidates(1)
    /\ filteredFiles = <<>>
    /\ loads = <<>>
    /\ hideTimer = FALSE
    /\ uncaught = FALSE
    /\ outcome = <<"loaded">>
    /\ docFile = RemoteFile(1)
    /\ latest = [file |-> RemoteFile(1), state |-> "ok"]

NextRender == \E k \in 1..Len(typeButtons.list) : ClickCategory(k)

SpecRender == InitRender /\ [][NextRender]_vars

\* out is the category cat of data with the text of every summary kept,
\* every occurrence of the filter highlighted if cat is the target category
\* and nothing highlighted otherwise.
HighlightedAsClaimed(data, cat, filter, out) ==
    LET items == SelectSeq(ItemsOfType(data, cat), HasSummary)
    IN  /\ out.kind = "category"
        /\ out.cat = cat
        /\ Len(out.items) = Len(items)
        /\ \A j \in 1..Len(items) :
              LET s == items[j].summary
                  d == out.items[j]
              IN  /\ Len(d) = Len(s)
                  /\ \A m \in 1..Len(s) : d[m].ch = s[m]
                  /\ cat # typeFilter => \A m \in 1..Len(s) : ~d[m].hl
                  /\ cat = typeFilter =>
                        \A i \in 1..Len(s) :
                            OccursAt(s, filter, i) =>
                                \A m \in i..(i + Len(filter) - 1) : d[m].hl

\* C10: when a category is rendered, every literal occurrence of the
\* contentFilter substring in a summary is wrapped in a highlight marker if
\* and only if the rendered category is the target category.
C10_HighlightOnlyTarget ==
    [][\A k \in 1..Len(typeButtons.list) :
          ClickCategory(k) =>
              HighlightedAsClaimed(currentJsonData, typeButtons.list[k].label,
                                   contentFilter, contentOutput')]_vars

\* A click on the target category with a filter that is no regular
\* expression: the listener threw and nothing was rendered.
C10_Witness ==
    /\ contentFilter = <<"a", "(">>
    /\ uncaught
    /\ contentOutput = InitialOut
    /\ \E k \in 1..Len(typeButtons.list) :
          typeButtons.list[k].label = typeFilter /\ typeButtons.list[k].active

\* The same, for the constructor's default filter only.
HighlightDefaultFilter ==
    [][\A k \in 1..Len(typeButtons.list) :
          (contentFilter = DefaultFilter /\ ClickCategory(k)) =>
              HighlightedAsClaimed(currentJsonData, typeButtons.list[k].label,
                                   contentFilter, contentOutput')]_vars

(***************************************************************************)
(* Category buttons (C11): the page showing one Document, the user having  *)
(* selected a file whose body is drawn from ButtonDocs: arrays of          *)
(* ill-formed records (null, an object without a type) and of entries, in  *)
(* any order and with repeated types.                                      *)
(***************************************************************************)
ButtonRecords ==
    {NullItem, Item(TRUE, "", "string", <<"b">>)}
        \cup {Entry(t, <<"b">>) : t \in Types}

ButtonDocs == {Arr(items) : items \in UNION {[1..m -> ButtonRecords] : m \in 0..MaxRecords}}

\* The page after a startup in which every candidate loaded and none
\* matched, the first one showing PlainDoc, the status line hidden, and the
\* 'change' listener at its await for the second file (script.js:201-204).
InitButtons ==
    LET r == UpdateAndDisplay("script", PlainDoc, NoButtons, RemoteFile(1),
                              DefaultFilter, InitialOut)
    IN  /\ viewer = "script"
        /\ contentFilter = DefaultFilter
        /\ availableFiles = Candidates(MaxFiles)
        /\ jsonFiles = Candidates(MaxFiles)
        /\ currentJsonData = PlainDoc
        /\ fileOptions = Candidates(MaxFiles)
        /\ fileValue = RemoteFile(2)
        /\ typeButtons = r.buttons
        /\ contentOutput = r.out
        /\ filterInfo = updateFilterInfo(0)
        /\ statusMessage = [Status("info", "loadedFiles", "init") EXCEPT !.visible = FALSE]
        /\ loadingIndicator = TRUE
        /\ listening = TRUE
        /\ pc = "done"
        /\ idx = MaxFiles
        /\ loadedFiles = Candidates(MaxFiles)
        /\ filteredFiles = <<>>
        /\ loads = <<Load("select", RemoteFile(2))>>
        /\ hideTimer = FALSE
        /\ uncaught = FALSE
        /\ outcome = [k \in 1..MaxFiles |-> "loaded"]
        /\ docFile = RemoteFile(1)
        /\ latest = [file |-> RemoteFile(2), state |-> "pending"]

NextButtons ==
    \/ \E i \in 1..Len(loads) : ResponseArrives(i, "ok")
    \/ \E i \in 1..Len(loads) : \E body \in ButtonDocs : BodyParsed(i, body)
    \/ \E k \in 1..Len(typeButtons.list) : ClickCategory(k)

SpecButtons == InitButtons /\ [][NextButtons]_vars

\* the type values of the well-formed entries of a Document
WellFormedTypes(data) ==
    {data.items[k].type : k \in {j \in 1..Len(data.items) : WellFormed(data.items[j])}}

ButtonLabels == [k \in 1..Len(typeButtons.list) |-> typeButtons.list[k].label]

\* C11: for every loaded Document the category buttons are exactly the
\* distinct type values of its well-formed entries, in ascending order with
\* no duplicates; ill-formed records contribute no button and cause no
\* error.
C11_ButtonsAreSortedTypes ==
    currentJsonData.kind = "array" =>
        /\ Range(ButtonLabels) = WellFormedTypes(currentJsonData)
        /\ \A j, k \in 1..Len(ButtonLabels) :
              j < k => TypeRank(ButtonLabels[j]) < TypeRank(ButtonLabels[k])
        /\ ~SelectionErrorShown
        /\ ~uncaught

\* The user has selected a file whose Document is an ill-formed record
\* followed by two entries whose types are in descending order: two
\* buttons, in ascending order.
C11_Witness ==
    /\ loads = <<>>
    /\ fileValue = RemoteFile(2)
    /\ currentJsonData =
          Arr(<<NullItem, Entry("usage", <<"b">>), Entry("architecture", <<"b">>)>>)
    /\ ButtonLabels = <<"architecture", "usage">>

(***************************************************************************)
(* The active button and the rendered category (C12), the loading          *)
(* indicator (C13): the page running script.js.                            *)
(***************************************************************************)
\* C12: whenever a Document is loaded and some category button is marked
\* active, the label of the active button is the category whose entries
\* are rendered in the output region.
C12_ActiveIsRendered ==
    (currentJsonData.kind = "array" /\ ActiveButtons # {}) =>
        \A k \in ActiveButtons :
            /\ contentOutput.kind = "category"
            /\ contentOutput.cat = typeButtons.list[k].label

\* Startup has loaded a Document without a match whose first entry is of
\* type "usage": "usage" is rendered, and the button marked active is the
\* first of the sorted buttons, "architecture".  No button was clicked.
C12_Witness ==
    /\ viewer = "script"
    /\ pc = "done"
    /\ loads = <<>>
    /\ ~uncaught
    /\ fileValue = RemoteFile(1)
    /\ docFile = RemoteFile(1)
    /\ currentJsonData = PlainDoc
    /\ contentOutput.kind = "category"
    /\ contentOutput.cat = "usage"
    /\ ButtonLabels = <<"architecture", "usage">>
    /\ ActiveButtons = {1}

\* C13: the loading indicator is visible in every state in which a load is
\* in flight, and hidden once no load is in flight.
C13_LoadingWhileInFlight ==
    pc # "boot" => (loadingIndicator <=> loads # <<>>)

\* Startup's own load of the first file is in flight, a selection of the
\* second file made meanwhile has ended, and the indicator is hidden.
C13_Witness ==
    /\ viewer = "script"
    /\ pc = "first"
    /\ Len(loads) = 1
    /\ loads[1].owner = "first"
    /\ latest.file = RemoteFile(2)
    /\ latest.state # "pending"
    /\ ~loadingIndicator

=============================================================================
